---- MODULE Spec2Model ----
(***************************************************************************)
(* Model of create_sample_spatiotemporal_data.ipynb: a linear notebook     *)
(* that draws n random rows (dtg, lat, lon, cause), assembles them into a  *)
(* pandas DataFrame and writes the frame to data_sample.csv.               *)
(*                                                                         *)
(* Timestamps are seconds since 1970-01-01 00:00:00.  Floats are fixed     *)
(* point numbers with FloatDigits decimals; random.random() is k/RandRes.  *)
(* Text (the csv file) is a sequence of lines, a line a sequence of        *)
(* one-character strings.                                                  *)
(***************************************************************************)
EXTENDS Integers, Sequences, FiniteSets, TLC

VARIABLES n, gridStart, gridEnd, lat, lon, dtg, cause, data,
          pc, err, fileExists, file, prior

vars == <<n, gridStart, gridEnd, lat, lon, dtg, cause, data,
          pc, err, fileExists, file, prior>>

(***************************************************************************)
(* Bounds of the model.                                                    *)
(***************************************************************************)
\* largest row count n that is explored
MaxN == 2
\* random.random() returns k/RandRes for k in 0..RandRes-1
RandRes == 4096
\* a float keeps FloatDigits decimal digits (round to nearest, ties to even)
FloatDigits == 1

\* the values of n: a negative count, the empty dataset, and 1..MaxN rows
Ns == -1 .. MaxN

\* the draws of random.random() that are explored: the least and the greatest
RandDraws == {0, RandRes - 1}

(***************************************************************************)
(* Calendar arithmetic (proleptic Gregorian), as pandas does it.           *)
(***************************************************************************)
DaysFromCivil(y, m, d) ==
    LET yy  == IF m <= 2 THEN y - 1 ELSE y
        era == yy \div 400
        yoe == yy - era * 400
        mp  == IF m > 2 THEN m - 3 ELSE m + 9
        doy == (153 * mp + 2) \div 5 + d - 1
        doe == yoe * 365 + yoe \div 4 - yoe \div 100 + doy
    IN  era * 146097 + doe - 719468

CivilFromDays(days) ==
    LET z   == days + 719468
        era == z \div 146097
        doe == z - era * 146097
        yoe == (doe - doe \div 1460 + doe \div 36524 - doe \div 146096) \div 365
        doy == doe - (365 * yoe + yoe \div 4 - yoe \div 100)
        mp  == (5 * doy + 2) \div 153
        d   == doy - (153 * mp + 2) \div 5 + 1
        m   == IF mp < 10 THEN mp + 3 ELSE mp - 9
        y   == yoe + era * 400 + (IF m <= 2 THEN 1 ELSE 0)
    IN  [year |-> y, month |-> m, day |-> d]

\* pd.Timestamp('YYYYMMDD'): the literal read as a calendar date at midnight
ParseDate(lit) ==
    DaysFromCivil(lit \div 10000, (lit \div 100) % 100, lit % 100) * 86400

\* freq='1H', in seconds
Freq == 3600

\* a date_range that runs one step past its end
GridLenPastEnd(start, end) ==
    IF ParseDate(end) < ParseDate(start)
    THEN 0
    ELSE (ParseDate(end) - ParseDate(start)) \div Freq + 2

\* pd.date_range(start, end, freq='1H'): start, start+1h, ... while <= end
GridLen(start, end) ==
    IF ParseDate(end) < ParseDate(start)
    THEN 0
    ELSE (ParseDate(end) - ParseDate(start)) \div Freq + 1

\* the i-th element (from 0) of the date_range
GridAt(start, i) == ParseDate(start) + i * Freq

(***************************************************************************)
(* The pools random.sample draws from: a list repeated k times.            *)
(***************************************************************************)
\* a pool that is the list itself, not repeated
TileOnce(base, k) == IF k <= 0 THEN << >> ELSE base

\* list * k for a list given in full; k <= 0 gives the empty list
Tile(base, k) ==
    IF k <= 0 THEN << >>
    ELSE [j \in 1 .. Len(base) * k |-> base[((j - 1) % Len(base)) + 1]]

\* len(list(date_range) * k)
DtgPoolLen(start, end, k) == IF k <= 0 THEN 0 ELSE GridLen(start, end) * k

\* (list(date_range) * k)[j - 1], j from 1
DtgPoolAt(start, end, j) == GridAt(start, (j - 1) % GridLen(start, end))

\* the three category labels
CatA == <<"C","a","t","e","g","o","r","y"," ","A">>
CatB == <<"C","a","t","e","g","o","r","y"," ","B">>
CatC == <<"C","a","t","e","g","o","r","y"," ","C">>
\* a label list with a misspelt label
CategoriesTypo == <<CatA, CatB, <<"C","a","t","e","g","o","r","y","C">> >>

Categories == <<CatA, CatB, CatC>>

\* sequences of k pairwise different elements of S: the positions that
\* sampling without replacement can select
Selections(S, k) ==
    {s \in [1 .. k -> S] : \A i, j \in 1 .. k : i # j => s[i] # s[j]}

\* a sample that refuses k = 0
SampleOkStrict(poolLen, k) == 0 < k /\ k <= poolLen

\* random.sample(population, k) is defined iff 0 <= k <= len(population)
SampleOk(poolLen, k) == 0 <= k /\ k <= poolLen

\* the results random.sample(pool, k) can return, pool given in full
SampleOutcomes(pool, k) ==
    {[i \in 1 .. k |-> pool[s[i]]] : s \in Selections(1 .. Len(pool), k)}

\* random.sample(pool, k), pool given in full: ValueError when k is negative or
\* larger than the pool, one of the selections otherwise
Sample(pool, k) ==
    IF SampleOk(Len(pool), k)
    THEN [raised |-> FALSE, results |-> SampleOutcomes(pool, k)]
    ELSE [raised |-> TRUE, results |-> {}]

\* the grid positions (from 0) whose copies in the pool are explored: the
\* first and the last instant of the grid and 2010-06-17 19:00:00
GridDraws(start, end) ==
    {g \in {0, 12787, GridLen(start, end) - 1} :
        0 <= g /\ g < GridLen(start, end)}

\* the positions (from 1) of the timestamp pool that are explored: every copy
\* of every explored grid position
DtgDraws(start, end, k) ==
    {c * GridLen(start, end) + g + 1 :
        c \in 0 .. (k - 1), g \in GridDraws(start, end)}

\* the results random.sample(list(date_range) * k, k) can return
DtgOutcomes(start, end, k) ==
    {[i \in 1 .. k |-> DtgPoolAt(start, end, s[i])] :
        s \in Selections(DtgDraws(start, end, k), k)}

\* a sample that returns the whole pool when asked for more than it holds
DtgSampleTruncating(start, end, k) ==
    IF 0 <= k /\ k > DtgPoolLen(start, end, k)
    THEN [raised |-> FALSE,
          results |-> DtgOutcomes(start, end, DtgPoolLen(start, end, k))]
    ELSE IF SampleOk(DtgPoolLen(start, end, k), k)
    THEN [raised |-> FALSE, results |-> DtgOutcomes(start, end, k)]
    ELSE [raised |-> TRUE, results |-> {}]

\* random.sample(list(date_range) * k, k)
DtgSample(start, end, k) ==
    IF SampleOk(DtgPoolLen(start, end, k), k)
    THEN [raised |-> FALSE, results |-> DtgOutcomes(start, end, k)]
    ELSE [raised |-> TRUE, results |-> {}]

(***************************************************************************)
(* Floats and random.uniform.                                              *)
(***************************************************************************)
RECURSIVE Pow10(_)
Pow10(e) == IF e = 0 THEN 1 ELSE 10 * Pow10(e - 1)

\* the number of float units in 1
Scale == Pow10(FloatDigits)

\* x / d rounded to the nearest integer, ties to even (x >= 0, d > 0)
RoundDiv(x, d) ==
    LET q == x \div d
        r == x % d
    IN  IF 2 * r > d \/ (2 * r = d /\ q % 2 = 1) THEN q + 1 ELSE q

\* a uniform that scales by b instead of b - a
UniformFromZero(a, b, k) == RoundDiv((a * RandRes + b * k) * Scale, RandRes)

\* random.uniform(a, b) = a + (b - a) * random(), with random() = k/RandRes;
\* the result is a float, in units of 1/Scale
Uniform(a, b, k) == RoundDiv((a * RandRes + (b - a) * k) * Scale, RandRes)

\* a comprehension over range(k - 1)
UniformListsShort(a, b, k) ==
    [1 .. (k - 1) -> {Uniform(a, b, r) : r \in RandDraws}]

\* [random.uniform(a, b) for x in range(k)]: the lists it can build
UniformLists(a, b, k) ==
    [1 .. k -> {Uniform(a, b, r) : r \in RandDraws}]

(***************************************************************************)
(* Rendering of values as csv text.                                        *)
(***************************************************************************)
Digits == <<"0","1","2","3","4","5","6","7","8","9">>

\* str(i) for an integer i >= 0
RECURSIVE IntStr(_)
IntStr(i) ==
    IF i < 10 THEN <<Digits[i + 1]>>
    ELSE Append(IntStr(i \div 10), Digits[(i % 10) + 1])

\* i >= 0 in exactly w digits, zero padded (the low w digits)
RECURSIVE Padded(_, _)
Padded(i, w) ==
    IF w = 0 THEN << >>
    ELSE Append(Padded(i \div 10, w - 1), Digits[(i % 10) + 1])

\* a digit string without its trailing zeros, but never shorter than 1
RECURSIVE StripZeros(_)
StripZeros(s) ==
    IF Len(s) > 1 /\ s[Len(s)] = "0"
    THEN StripZeros(SubSeq(s, 1, Len(s) - 1))
    ELSE s

\* repr of a float v >= 0 (in units of 1/Scale): 56.4, 60.0
FloatStr(v) ==
    IntStr(v \div Scale) \o <<".">>
        \o StripZeros(IF FloatDigits = 0 THEN <<"0">>
                      ELSE Padded(v % Scale, FloatDigits))

\* pandas _is_dates_only: no value of the column has a time of day
IsDatesOnly(col) == \A i \in 1 .. Len(col) : col[i] % 86400 = 0

\* %Y-%m-%d
DateStr(t) ==
    LET c == CivilFromDays(t \div 86400)
    IN  Padded(c.year, 4) \o <<"-">> \o Padded(c.month, 2) \o <<"-">>
            \o Padded(c.day, 2)

\* %H:%M:%S
TimeStr(t) ==
    LET s == t % 86400
    IN  Padded(s \div 3600, 2) \o <<":">> \o Padded((s % 3600) \div 60, 2)
            \o <<":">> \o Padded(s % 60, 2)

\* the text of one datetime64 value of a column: the date alone when the
\* whole column is dates only, date and time of day otherwise
TimestampStr(t, datesOnly) ==
    IF datesOnly THEN DateStr(t) ELSE DateStr(t) \o <<" ">> \o TimeStr(t)

\* fields joined by commas
RECURSIVE JoinFields(_)
JoinFields(fs) ==
    IF Len(fs) = 0 THEN << >>
    ELSE IF Len(fs) = 1 THEN fs[1]
    ELSE fs[1] \o <<",">> \o JoinFields(Tail(fs))

\* the header line: an empty label for the index, then the column names
HeaderLine ==
    JoinFields(<< << >>, <<"d","t","g">>, <<"l","a","t">>, <<"l","o","n">>,
                  <<"c","a","u","s","e">> >>)

\* the line of one row of the frame
RowLine(row, datesOnly) ==
    JoinFields(<<IntStr(row.index), TimestampStr(row.dtg, datesOnly),
                 FloatStr(row.lat), FloatStr(row.lon), row.cause>>)

\* pd.DataFrame({'dtg': .., 'lat': .., 'lon': .., 'cause': ..}): the lists
\* must be of one length; row i of the frame takes element i of every list,
\* under the default index 0, 1, ...
SameLength(a, b, c, d) == Len(a) = Len(b) /\ Len(b) = Len(c) /\ Len(c) = Len(d)

\* a frame with the lat and lon columns exchanged
DataFrameSwapped(a, b, c, d) ==
    [i \in 1 .. Len(a) |->
        [index |-> i - 1, dtg |-> a[i], lat |-> c[i], lon |-> b[i],
         cause |-> d[i]]]

DataFrame(a, b, c, d) ==
    [i \in 1 .. Len(a) |->
        [index |-> i - 1, dtg |-> a[i], lat |-> b[i], lon |-> c[i],
         cause |-> d[i]]]

\* the lines DataFrame.to_csv writes, in order: header, then one per row
CsvLines(frame) ==
    LET datesOnly == IsDatesOnly([i \in 1 .. Len(frame) |-> frame[i].dtg])
    IN  <<HeaderLine>>
            \o [i \in 1 .. Len(frame) |-> RowLine(frame[i], datesOnly)]

\* what a file left at the destination by an earlier run holds
OldFile == << <<"o","l","d">> >>

(***************************************************************************)
(* The notebook, statement by statement.                                   *)
(***************************************************************************)
InitRun ==
    /\ n \in Ns
    /\ lat = << >> /\ lon = << >> /\ dtg = << >> /\ cause = << >>
    /\ data = << >>
    /\ pc = "gen_lat"
    /\ err = "none"
    /\ \E e \in BOOLEAN :
        /\ fileExists = e
        /\ file = (IF e THEN OldFile ELSE << >>)
        /\ prior = [exists |-> e, content |-> IF e THEN OldFile ELSE << >>]

\* the date literals of the notebook
GridLiterals == {20090101, 20120110}

\* the dataset statement for any two of the date literals as the grid's ends
InitGrid ==
    /\ gridStart \in GridLiterals
    /\ gridEnd \in GridLiterals
    /\ InitRun

\* the literals of the notebook
Init ==
    /\ gridStart = 20090101
    /\ gridEnd = 20120110
    /\ InitRun

\* lat = [random.uniform(50, 60) for x in range(n)]
GenLat ==
    /\ pc = "gen_lat"
    /\ lat' \in UniformLists(50, 60, n)
    /\ pc' = "gen_lon"
    /\ UNCHANGED <<n, gridStart, gridEnd, lon, dtg, cause, data, err,
                   fileExists, file, prior>>

\* lon = [random.uniform(5, 15) for x in range(n)]
GenLon ==
    /\ pc = "gen_lon"
    /\ lon' \in UniformLists(5, 15, n)
    /\ pc' = "gen_dtg"
    /\ UNCHANGED <<n, gridStart, gridEnd, lat, dtg, cause, data, err,
                   fileExists, file, prior>>

\* dtg = random.sample(list(pd.date_range(..., freq='1H'))*n, n)
GenDtg ==
    /\ pc = "gen_dtg"
    /\ IF ~DtgSample(gridStart, gridEnd, n).raised
       THEN /\ dtg' \in DtgSample(gridStart, gridEnd, n).results
            /\ pc' = "gen_cause"
            /\ err' = err
       ELSE /\ dtg' = dtg
            /\ pc' = "failed"
            /\ err' = "ValueError"
    /\ UNCHANGED <<n, gridStart, gridEnd, lat, lon, cause, data,
                   fileExists, file, prior>>

\* cause = random.sample(['Category A', 'Category B', 'Category C']*n, n)
GenCause ==
    /\ pc = "gen_cause"
    /\ IF ~Sample(Tile(Categories, n), n).raised
       THEN /\ cause' \in Sample(Tile(Categories, n), n).results
            /\ pc' = "assemble"
            /\ err' = err
       ELSE /\ cause' = cause
            /\ pc' = "failed"
            /\ err' = "ValueError"
    /\ UNCHANGED <<n, gridStart, gridEnd, lat, lon, dtg, data,
                   fileExists, file, prior>>

\* data = pd.DataFrame({...})
Assemble ==
    /\ pc = "assemble"
    /\ IF SameLength(dtg, lat, lon, cause)
       THEN /\ data' = DataFrame(dtg, lat, lon, cause)
            /\ pc' = "export"
            /\ err' = err
       ELSE /\ data' = data
            /\ pc' = "failed"
            /\ err' = "ValueError"
    /\ UNCHANGED <<n, gridStart, gridEnd, lat, lon, dtg, cause,
                   fileExists, file, prior>>

\* data.to_csv('data_sample.csv'): the file is opened for writing, which
\* creates it or empties the one that is there
ExportOpen ==
    /\ pc = "export"
    /\ fileExists' = TRUE
    /\ file' = << >>
    /\ pc' = "write"
    /\ UNCHANGED <<n, gridStart, gridEnd, lat, lon, dtg, cause, data, err,
                   prior>>

\* the open fails (the path is not writable): nothing is touched
ExportOpenFail ==
    /\ pc = "export"
    /\ pc' = "failed"
    /\ err' = "IOError"
    /\ UNCHANGED <<n, gridStart, gridEnd, lat, lon, dtg, cause, data,
                   fileExists, file, prior>>

\* the next line of the table reaches the file
ExportWrite ==
    /\ pc = "write"
    /\ Len(file) < Len(CsvLines(data))
    /\ file' = Append(file, CsvLines(data)[Len(file) + 1])
    /\ UNCHANGED <<n, gridStart, gridEnd, lat, lon, dtg, cause, data, pc,
                   err, fileExists, prior>>

\* a write fails (disk full): the exception leaves to_csv, the handle is
\* closed, and the file keeps what was written so far
ExportWriteFail ==
    /\ pc = "write"
    /\ pc' = "failed"
    /\ err' = "IOError"
    /\ UNCHANGED <<n, gridStart, gridEnd, lat, lon, dtg, cause, data,
                   fileExists, file, prior>>

\* every line is written and the file is closed
ExportClose ==
    /\ pc = "write"
    /\ Len(file) = Len(CsvLines(data))
    /\ pc' = "done"
    /\ UNCHANGED <<n, gridStart, gridEnd, lat, lon, dtg, cause, data, err,
                   fileExists, file, prior>>

Next ==
    \/ GenLat
    \/ GenLon
    \/ GenDtg
    \/ GenCause
    \/ Assemble
    \/ ExportOpen
    \/ ExportOpenFail
    \/ ExportWrite
    \/ ExportWriteFail
    \/ ExportClose

Spec == Init /\ [][Next]_vars

\* the same statements, the grid's ends drawn from the date literals
SpecGrid == InitGrid /\ [][Next]_vars

(***************************************************************************)
(* Reading csv text back, for the statements about the exported file.      *)
(***************************************************************************)
DigitVal(c) == CHOOSE d \in 0 .. 9 : Digits[d + 1] = c

IsDigit(c) == \E d \in 0 .. 9 : Digits[d + 1] = c

RECURSIVE ReadInt(_)
ReadInt(s) ==
    IF Len(s) = 0 THEN 0
    ELSE 10 * ReadInt(SubSeq(s, 1, Len(s) - 1)) + DigitVal(s[Len(s)])

\* the position of the first c in s, 0 when there is none
FirstOf(s, c) ==
    IF \E i \in 1 .. Len(s) : s[i] = c
    THEN CHOOSE i \in 1 .. Len(s) :
            s[i] = c /\ \A j \in 1 .. (i - 1) : s[j] # c
    ELSE 0

RECURSIVE ReadFields(_)
ReadFields(line) ==
    LET c == FirstOf(line, ",")
    IN  IF c = 0 THEN <<line>>
        ELSE <<SubSeq(line, 1, c - 1)>>
                \o ReadFields(SubSeq(line, c + 1, Len(line)))

\* a decimal numeral as a float of the model
ReadFloat(s) ==
    LET p    == FirstOf(s, ".")
        frac == SubSeq(s, p + 1, Len(s))
    IN  ReadInt(SubSeq(s, 1, p - 1)) * Scale
            + ReadInt(frac) * Pow10(FloatDigits - Len(frac))

\* YYYY-MM-DD, with or without HH:MM:SS, as seconds since 1970
ReadTimestamp(s) ==
    DaysFromCivil(ReadInt(SubSeq(s, 1, 4)), ReadInt(SubSeq(s, 6, 7)),
                  ReadInt(SubSeq(s, 9, 10))) * 86400
        + (IF Len(s) >= 19
           THEN ReadInt(SubSeq(s, 12, 13)) * 3600
                    + ReadInt(SubSeq(s, 15, 16)) * 60
                    + ReadInt(SubSeq(s, 18, 19))
           ELSE 0)

\* the text ",dtg,lat,lon,cause"
HeaderText ==
    <<",","d","t","g",",","l","a","t",",","l","o","n",",","c","a","u","s","e">>

\* the statements after which each list is assigned
AfterLat == {"gen_lon", "gen_dtg", "gen_cause", "assemble", "export", "write", "done"}
AfterDtg == {"gen_cause", "assemble", "export", "write", "done"}
AfterCause == {"assemble", "export", "write", "done"}
AfterAssemble == {"export", "write", "done"}

(***************************************************************************)
(* The claims.                                                             *)
(***************************************************************************)

\* C1: in a run with n >= 1 each of the four generated lists has exactly n
\* elements once assigned, the assembled frame has exactly n rows, and the
\* file of a completed run has exactly n lines after its header line.
C1_ExactlyNRows ==
    n >= 1 =>
        /\ pc \in AfterLat => Len(lat) = n
        /\ pc \in AfterLat \ {"gen_lon"} => Len(lon) = n
        /\ pc \in AfterDtg => Len(dtg) = n
        /\ pc \in AfterCause => Len(cause) = n
        /\ pc \in AfterAssemble => Len(data) = n
        /\ pc = "done" => Len(file) = n + 1 /\ file[1] = HeaderText

C1_Witness ==
    /\ pc = "done" /\ n = MaxN
    /\ Len(lat) = MaxN /\ Len(data) = MaxN /\ Len(file) = MaxN + 1

\* C2: every generated timestamp lies in [2009-01-01 00:00:00,
\* 2012-01-10 00:00:00] and is a whole number of hours after 2009-01-01.
C2_OnHourlyGrid ==
    /\ \A i \in 1 .. Len(dtg) :
            /\ 1230768000 <= dtg[i] /\ dtg[i] <= 1326153600
            /\ (dtg[i] - 1230768000) % 3600 = 0
    /\ \A i \in 1 .. Len(data) :
            /\ 1230768000 <= data[i].dtg /\ data[i].dtg <= 1326153600
            /\ (data[i].dtg - 1230768000) % 3600 = 0

C2_Witness ==
    /\ pc = "done" /\ n >= 2
    /\ \E i \in 1 .. Len(data) : data[i].dtg = 1230768000
    /\ \E i \in 1 .. Len(data) : data[i].dtg = 1326153600

\* C3: every latitude is in [50, 60] and every longitude in [5, 15], the
\* bounds included.
C3_CoordinatesInRange ==
    /\ \A i \in 1 .. Len(lat) : 50 * Scale <= lat[i] /\ lat[i] <= 60 * Scale
    /\ \A i \in 1 .. Len(lon) : 5 * Scale <= lon[i] /\ lon[i] <= 15 * Scale
    /\ \A i \in 1 .. Len(data) :
            /\ 50 * Scale <= data[i].lat /\ data[i].lat <= 60 * Scale
            /\ 5 * Scale <= data[i].lon /\ data[i].lon <= 15 * Scale

C3_Witness ==
    /\ pc = "done"
    /\ \E i \in 1 .. Len(data) : data[i].lat = 60 * Scale
    /\ \E i \in 1 .. Len(data) : data[i].lon = 5 * Scale

\* C4: every cause is one of the labels Category A, Category B, Category C.
C4_CauseIsCategory ==
    /\ \A i \in 1 .. Len(cause) : cause[i] \in {CatA, CatB, CatC}
    /\ \A i \in 1 .. Len(data) : data[i].cause \in {CatA, CatB, CatC}

C4_Witness ==
    /\ pc = "done" /\ n >= 2
    /\ \E i, j \in 1 .. Len(data) : data[i].cause = CatA /\ data[j].cause = CatC

\* C5: the file of a completed run starts with the line ",dtg,lat,lon,cause",
\* and its line i + 1 reads, in this order, the index i - 1 and the i-th
\* element of the generated dtg, lat, lon and cause lists.
C5_RowsInPosition ==
    pc = "done" =>
        /\ Len(file) = Len(dtg) + 1
        /\ file[1] = HeaderText
        /\ \A i \in 1 .. Len(dtg) :
            LET f == ReadFields(file[i + 1])
            IN  /\ Len(f) = 5
                /\ f[1] = IntStr(i - 1)
                /\ ReadTimestamp(f[2]) = dtg[i]
                /\ ReadFloat(f[3]) = lat[i]
                /\ ReadFloat(f[4]) = lon[i]
                /\ f[5] = cause[i]

C5_Witness ==
    /\ pc = "done" /\ n >= 2
    /\ lat[1] # lat[2] /\ lon[1] # lon[2] /\ dtg[1] # dtg[2]
    /\ cause[1] # cause[2]

\* C6: when the run has ended, completed or failed, the destination holds the
\* complete table or is as it was before the run (absent, or with its old
\* content).
C6_NoPartialFile ==
    pc \in {"done", "failed"} =>
        \/ fileExists /\ file = CsvLines(data)
        \/ fileExists = prior.exists /\ file = prior.content

\* C7: with n = 0 no generator raises, all four lists are empty, and the file
\* of the completed run is the header line alone.
C7_EmptyRun ==
    n = 0 =>
        /\ err # "ValueError"
        /\ lat = << >> /\ lon = << >> /\ dtg = << >> /\ cause = << >>
        /\ pc = "done" => file = <<HeaderText>>

C7_Witness == n = 0 /\ pc = "done" /\ Len(file) = 1

\* C8: the timestamp and the category sample never come back with other than
\* n values, and the run fails with the sampling error whenever n exceeds the
\* size of the pool that is sampled.
C8_NeverTruncated ==
    /\ pc \in AfterDtg => Len(dtg) = n
    /\ pc \in AfterCause => Len(cause) = n
    /\ n > DtgPoolLen(gridStart, gridEnd, n) =>
        \/ pc \in {"gen_lat", "gen_lon", "gen_dtg"}
        \/ pc = "failed" /\ err = "ValueError" /\ dtg = << >>
    /\ n > Len(Tile(Categories, n)) =>
        \/ pc \in {"gen_lat", "gen_lon", "gen_dtg", "gen_cause"}
        \/ pc = "failed" /\ err = "ValueError" /\ cause = << >>

C8_Witness ==
    /\ n >= 1 /\ n > DtgPoolLen(gridStart, gridEnd, n)
    /\ pc = "failed" /\ err = "ValueError"

\* C9: in the file of a completed run every timestamp reads
\* YYYY-MM-DD HH:MM:00.
C9_TimestampText ==
    pc = "done" =>
        \A i \in 2 .. Len(file) :
            LET t == ReadFields(file[i])[2]
            IN  /\ Len(t) = 19
                /\ t[5] = "-" /\ t[8] = "-" /\ t[11] = " "
                /\ t[14] = ":" /\ t[17] = ":"
                /\ t[18] = "0" /\ t[19] = "0"
                /\ \A j \in {1, 2, 3, 4, 6, 7, 9, 10, 12, 13, 15, 16} :
                        IsDigit(t[j])

\* C10: for n >= 1 every sequence of n of the three labels is a result the
\* category sample can return, and every explored instant of the grid can
\* fill all n elements of the timestamp sample.
C10_EverySequencePossible ==
    n >= 1 =>
        /\ pc = "gen_cause" =>
            /\ ~Sample(Tile(Categories, n), n).raised
            /\ [1 .. n -> {CatA, CatB, CatC}]
                    \subseteq Sample(Tile(Categories, n), n).results
        /\ pc = "gen_dtg" =>
            /\ ~DtgSample(gridStart, gridEnd, n).raised
            /\ \A g \in GridDraws(gridStart, gridEnd) :
                    [i \in 1 .. n |-> GridAt(gridStart, g)]
                        \in DtgSample(gridStart, gridEnd, n).results

C10_Witness ==
    /\ pc = "assemble" /\ n = MaxN /\ n >= 2
    /\ \A i \in 1 .. n : cause[i] = CatB /\ dtg[i] = 1326153600

====
